---------------------------- MODULE Spec2Model ----------------------------
(***************************************************************************)
(* Model of src/app.py: the Flask handlers /predict and /track and the     *)
(* propagator predict_satellite_position.                                  *)
(*                                                                         *)
(* Numbers.  The source computes in IEEE doubles.  The model computes in   *)
(* exact rationals extended with +inf, -inf and NaN (numpy's results for   *)
(* x/0, 0/0, sqrt of a negative), and with "opaque" finite values for the  *)
(* quantities it does not evaluate (sin, cos, irrational square roots,     *)
(* products too large for the model's integers).  No branch of the source  *)
(* is decided on an opaque value for the inputs the model draws.           *)
(*                                                                         *)
(* Units.  Times are in seconds as in the source.  Lengths are in a unit   *)
(* DU chosen so that the gravitational parameter (3.986004418e14 m^3/s^2   *)
(* at app.py:111) has the numerical value MU in DU^3/s^2; the formulas of  *)
(* the source do not depend on the length unit.                            *)
(***************************************************************************)
EXTENDS Integers, Sequences, FiniteSets, TLC

(***************************************************************************)
(* Bounds of the model.                                                    *)
(***************************************************************************)
MaxCoord == 2          \* coordinates of positions and velocities: 0..MaxCoord
LongDays == 31         \* longest horizon / longest track, in days
BigInt == 1000000000   \* products beyond this magnitude are kept opaque

(***************************************************************************)
(* Extended rational arithmetic.                                           *)
(*   [n, d], d > 0   the rational n/d in lowest terms                      *)
(*   [1, 0], [-1, 0] +inf, -inf                                            *)
(*   [0, 0]          NaN                                                   *)
(*   [s, -1]         an opaque finite value of sign s (0: sign unknown)    *)
(***************************************************************************)
AbsInt(i) == IF i < 0 THEN -i ELSE i

SignInt(i) == IF i < 0 THEN -1 ELSE IF i > 0 THEN 1 ELSE 0

RECURSIVE GCD(_, _)
GCD(x, y) == IF y = 0 THEN x ELSE GCD(y, x % y)

Fits(x, y) == x = 0 \/ y = 0 \/ AbsInt(x) <= BigInt \div AbsInt(y)

Rat(n, d) == LET g == GCD(AbsInt(n), AbsInt(d))
             IN  IF d < 0 THEN [n |-> (-n) \div g, d |-> (-d) \div g]
                          ELSE [n |-> n \div g, d |-> d \div g]

Int2F(i) == [n |-> i, d |-> 1]

Zero == Int2F(0)
One == Int2F(1)
NaN == [n |-> 0, d |-> 0]
PosInf == [n |-> 1, d |-> 0]
NegInf == [n |-> -1, d |-> 0]
Opq(s) == [n |-> s, d |-> -1]

IsNaN(x) == x.d = 0 /\ x.n = 0
IsInf(x) == x.d = 0 /\ x.n # 0
IsOpq(x) == x.d = -1
IsFin(x) == x.d > 0
IsZero(x) == x.d > 0 /\ x.n = 0
SignF(x) == SignInt(x.n)

Neg(x) == [n |-> -x.n, d |-> x.d]

AbsF(x) == [n |-> AbsInt(x.n), d |-> x.d]

\* x * y (IEEE: NaN absorbs, 0 * inf = NaN)
Mul(x, y) ==
    IF IsNaN(x) \/ IsNaN(y) THEN NaN
    ELSE IF IsInf(x) \/ IsInf(y)
         THEN IF IsZero(x) \/ IsZero(y) THEN NaN
              ELSE [n |-> SignF(x) * SignF(y), d |-> 0]
    ELSE IF IsZero(x) \/ IsZero(y) THEN Zero
    ELSE IF IsOpq(x) \/ IsOpq(y) THEN Opq(SignF(x) * SignF(y))
    ELSE LET g1 == GCD(AbsInt(x.n), y.d)
             g2 == GCD(AbsInt(y.n), x.d)
             a  == x.n \div g1
             b  == x.d \div g2
             c  == y.n \div g2
             e  == y.d \div g1
         IN  IF Fits(a, c) /\ Fits(b, e) THEN [n |-> a * c, d |-> b * e]
             ELSE Opq(SignF(x) * SignF(y))

\* 1 / y (IEEE: 1/0 = inf, 1/inf = 0)
Inv(y) ==
    IF IsNaN(y) THEN NaN
    ELSE IF IsInf(y) THEN Zero
    ELSE IF IsOpq(y) THEN y
    ELSE IF y.n = 0 THEN PosInf
    ELSE IF y.n < 0 THEN [n |-> -y.d, d |-> -y.n]
    ELSE [n |-> y.d, d |-> y.n]

\* x / y (IEEE: 0/0 = NaN, inf/inf = NaN, x/0 = +-inf)
Div(x, y) ==
    IF IsNaN(x) \/ IsNaN(y) THEN NaN
    ELSE IF IsInf(x) /\ IsInf(y) THEN NaN
    ELSE IF IsZero(x) /\ IsZero(y) THEN NaN
    ELSE IF IsInf(x) THEN [n |-> SignF(x) * (IF SignF(y) < 0 THEN -1 ELSE 1), d |-> 0]
    ELSE Mul(x, Inv(y))

\* x + y (IEEE: inf + -inf = NaN)
Add(x, y) ==
    IF IsNaN(x) \/ IsNaN(y) THEN NaN
    ELSE IF IsInf(x) /\ IsInf(y) THEN (IF x.n = y.n THEN x ELSE NaN)
    ELSE IF IsInf(x) THEN x
    ELSE IF IsInf(y) THEN y
    ELSE IF IsZero(x) THEN y
    ELSE IF IsZero(y) THEN x
    ELSE IF IsOpq(x) \/ IsOpq(y)
         THEN Opq(IF SignF(x) = SignF(y) THEN SignF(x) ELSE 0)
    ELSE LET g == GCD(x.d, y.d)
             p == y.d \div g
             q == x.d \div g
         IN  IF Fits(x.n, p) /\ Fits(y.n, q) /\ Fits(x.d, p)
             THEN Rat(x.n * p + y.n * q, x.d * p)
             ELSE Opq(IF SignF(x) = SignF(y) THEN SignF(x) ELSE 0)

Sub(x, y) == Add(x, Neg(y))

\* x < y, false when either side is NaN (exact operands only)
Lt(x, y) ==
    IF IsNaN(x) \/ IsNaN(y) THEN FALSE
    ELSE IF IsInf(x) \/ IsInf(y)
         THEN (IF IsInf(x) THEN x.n ELSE 0) < (IF IsInf(y) THEN y.n ELSE 0)
    ELSE x.n * y.d < y.n * x.d

Le(x, y) == Lt(x, y) \/ (~IsNaN(x) /\ x = y)

RECURSIVE SqrtFrom(_, _)
SqrtFrom(i, k) == IF (i + 1) * (i + 1) > k THEN i ELSE SqrtFrom(i + 1, k)

\* the integer part of the square root of k >= 0
ISqrt(k) == SqrtFrom(0, k)

IsSquare(k) == ISqrt(k) * ISqrt(k) = k

\* np.sqrt: NaN for a negative argument; exact for a rational square,
\* an opaque positive value otherwise
Sqrt(x) ==
    IF IsNaN(x) THEN NaN
    ELSE IF x.n < 0 THEN NaN
    ELSE IF IsInf(x) THEN PosInf
    ELSE IF IsOpq(x) THEN (IF x.n > 0 THEN x ELSE Opq(0))
    ELSE IF IsSquare(x.n) /\ IsSquare(x.d) THEN [n |-> ISqrt(x.n), d |-> ISqrt(x.d)]
    ELSE Opq(1)

(***************************************************************************)
(* Tolerances and constants of the propagator.                             *)
(***************************************************************************)
MU == 2                  \* gravitational parameter, in DU^3/s^2 (app.py:111)
TolRoot == 100000        \* the tolerance 1e-10 is 1 / (TolRoot * TolRoot)
ClampNum == 999999       \* e = 0.999999 = ClampNum / ClampDen (app.py:119)
ClampDen == 1000000
HighEccNum == 4          \* e < 0.8 = HighEccNum / HighEccDen (app.py:135)
HighEccDen == 5
MaxIter == 20            \* Newton iterations (app.py:138, 146)
LongHorizon == 30 * 24 * 3600   \* seconds (app.py:205)

\* x < 1e-10 for an exact x >= 0; false for NaN and inf
BelowTol(x) ==
    /\ IsFin(x)
    /\ LET d1 == ((x.d - 1) \div TolRoot) + 1
       IN  x.n < ((d1 - 1) \div TolRoot) + 1

(***************************************************************************)
(* Vectors: sequences of three extended rationals.                         *)
(***************************************************************************)
Vec(s) == [i \in 1..3 |-> Int2F(s[i])]

Cross(a, b) == << Sub(Mul(a[2], b[3]), Mul(a[3], b[2])),
                  Sub(Mul(a[3], b[1]), Mul(a[1], b[3])),
                  Sub(Mul(a[1], b[2]), Mul(a[2], b[1])) >>

Dot(a, b) == Add(Add(Mul(a[1], b[1]), Mul(a[2], b[2])), Mul(a[3], b[3]))

Norm(a) == Sqrt(Dot(a, a))

Scale(k, a) == [i \in 1..3 |-> Mul(k, a[i])]

VDiv(a, k) == [i \in 1..3 |-> Div(a[i], k)]

VAdd(a, b) == [i \in 1..3 |-> Add(a[i], b[i])]

VSub(a, b) == [i \in 1..3 |-> Sub(a[i], b[i])]

(***************************************************************************)
(* JSON values of a request body, as Python sees them.                     *)
(*   none: the field is absent (data.get returns None)                     *)
(*   num:  a number, items = <<value>>                                     *)
(*   frac: a number with a fractional part, items = <<num, den>>           *)
(*   list: a list of numbers, items = the elements                         *)
(*   str:  a string, items = its characters; a time string                 *)
(*         "YYYY-MM-DD HH:MM:SS" is kept as <<day, hour, minute, second>>, *)
(*         the calendar date counted in days                               *)
(***************************************************************************)
JNone == [ty |-> "none", items |-> <<>>]
JNum(i) == [ty |-> "num", items |-> <<i>>]
JFrac(n, d) == [ty |-> "frac", items |-> <<n, d>>]
JList(s) == [ty |-> "list", items |-> s]
JStr(s) == [ty |-> "str", items |-> s]

\* Python truth value, as used by all([...])
Truthy(x) ==
    CASE x.ty = "none" -> FALSE
      [] x.ty = "num"  -> x.items[1] # 0
      [] OTHER         -> Len(x.items) > 0

\* len(x) is defined for lists and strings and raises TypeError otherwise
HasLen(x) == x.ty \in {"list", "str"}

PyLen(x) == Len(x.items)

\* np.array(x, dtype=float) and float(x[i]) succeed on a list of numbers
\* and raise ValueError on the characters of a string
IsNumeric(x) == x.ty = "list"

\* datetime.strptime(s, "%Y-%m-%d %H:%M:%S") raises unless s has the format
ParsesAsTime(s) ==
    /\ s.ty = "str"
    /\ Len(s.items) = 4
    /\ s.items[1] >= 0
    /\ s.items[2] \in 0..23
    /\ s.items[3] \in 0..59
    /\ s.items[4] \in 0..59

\* the parsed datetime, in seconds
Strptime(s) == ((s.items[1] * 24 + s.items[2]) * 60 + s.items[3]) * 60 + s.items[4]

\* datetime.strftime("%Y-%m-%d %H:%M:%S")
Strftime(t) == JStr(<< t \div 86400, (t % 86400) \div 3600,
                       (t % 3600) \div 60, t % 60 >>)

(***************************************************************************)
(* Positions returned by the propagator: xyz holds the three components;   *)
(* when a component is opaque (a Kepler position the model does not        *)
(* evaluate), "of" names the arguments it is a function of.                *)
(***************************************************************************)
NoPos == [xyz |-> <<>>, of |-> <<>>]

ExactPos(p) == [xyz |-> p, of |-> <<>>]

MkPos(p, r0, v, dt, a_earth) ==
    IF \E i \in 1..3 : IsOpq(p[i])
    THEN [xyz |-> p, of |-> r0 \o v \o <<dt, a_earth>>]
    ELSE ExactPos(p)

\* initial_position + velocity * time_difference  (app.py:126, 169, 206)
Rectilinear(r0, v, dt) == ExactPos([i \in 1..3 |-> Int2F(r0[i] + v[i] * dt)])

(***************************************************************************)
(* predict_satellite_position  (app.py:78-211)                             *)
(***************************************************************************)
\* Intermediate values are handed from one definition to the next as
\* parameters, in the order the source computes them.

\* e_vec = np.cross(velocity, h) / mu - initial_position / r  (app.py:114)
EccentricityVector(r0, v, h, r) ==
    VSub(VDiv(Cross(v, h), Int2F(MU)), VDiv(r0, r))

\* the clamp of e near 1 (app.py:117-119)
Eccentricity(e0) ==
    IF BelowTol(AbsF(Sub(e0, One))) THEN Rat(ClampNum, ClampDen) ELSE e0

\* a = r / (1 - e * np.dot(e_vec, initial_position) / (e * r))  (app.py:122)
SemiMajorAxis(r0, r, e_vec, e) ==
    Div(r, Sub(One, Div(Mul(e, Dot(e_vec, r0)), Mul(e, r))))

ElementsRecord(r0, r, h, e_vec, e0, e) ==
    [r |-> r, h |-> h, e_vec |-> e_vec, e0 |-> e0, e |-> e,
     a |-> SemiMajorAxis(r0, r, e_vec, e)]

ElementsOfVector(r0, r, h, e_vec) ==
    ElementsRecord(r0, r, h, e_vec, Norm(e_vec), Eccentricity(Norm(e_vec)))

ElementsOfMomentum(r0, v, r, h) ==
    ElementsOfVector(r0, r, h, EccentricityVector(r0, v, h, r))

\* Element derivation (app.py:103-122).  v = |velocity| (app.py:105) is
\* never read and is left out.
Elements(r0, v) == ElementsOfMomentum(r0, v, Norm(r0), Cross(r0, v))

\* np.sin, np.cos: exact at 0, NaN at NaN and inf, not evaluated elsewhere
SinF(x) == IF IsZero(x) THEN Zero
           ELSE IF IsNaN(x) \/ IsInf(x) THEN NaN ELSE Opq(0)

CosF(x) == IF IsZero(x) THEN One
           ELSE IF IsNaN(x) \/ IsInf(x) THEN NaN ELSE Opq(0)

\* Initial guess (app.py:137, 145).  For M other than 0 and NaN the guess
\* is M or pi, a value the model does not evaluate.
KeplerGuess(M, e) ==
    IF Lt(e, Rat(HighEccNum, HighEccDen)) THEN M
    ELSE IF IsZero(M) \/ IsNaN(M) THEN M ELSE Opq(0)

\* Newton iteration (app.py:138-142, 146-150): at most MaxIter updates,
\* leaving early when |delta| < 1e-10.  Once delta is opaque so is E.
RECURSIVE Newton(_, _, _, _)
Newton(E, M, e, i) ==
    IF i = MaxIter THEN E
    ELSE LET delta == Div(Sub(Sub(E, Mul(e, SinF(E))), M),
                          Sub(One, Mul(e, CosF(E))))
             E1    == Sub(E, delta)
         IN  IF IsOpq(delta) THEN Opq(0)
             ELSE IF BelowTol(AbsF(delta)) THEN E1
             ELSE Newton(E1, M, e, i + 1)

\* Mean motion, mean anomaly and Kepler's equation (app.py:129-150)
Kepler(a, e, dt) ==
    LET n == Sqrt(Div(Int2F(MU), Mul(a, Mul(a, a))))
        M == Mul(n, Int2F(dt))
    IN  Newton(KeplerGuess(M, e), M, e, 0)

\* True anomaly and radius (app.py:152-160), den = 1 - e * cos_E.
\* 1 - e*e is evaluated as (1 - e)(1 + e), the same number, which keeps
\* its sign when e*e is too large for the model's integers.  nu
\* (app.py:157) and p (app.py:163) are never read and are left out.
AnomalyOf(a, e, cos_E, sin_E, den) ==
    [cos_nu |-> Div(Sub(cos_E, e), den),
     sin_nu |-> Div(Mul(Sqrt(Mul(Sub(One, e), Add(One, e))), sin_E), den),
     r_new  |-> Mul(a, den)]

Anomaly(a, e, E) == AnomalyOf(a, e, CosF(E), SinF(E), Sub(One, Mul(e, CosF(E))))

\* n_unit of the equatorial test (app.py:178-182)
NodeUnit(n0, n_mag) ==
    IF BelowTol(n_mag) THEN <<One, Zero, Zero>> ELSE VDiv(n0, n_mag)

\* the divisor of n_unit / n_mag, when that division is executed
\* (app.py:179-182)
NodeDivisors(n_mag) == IF BelowTol(n_mag) THEN <<>> ELSE <<n_mag>>

\* max(np.linalg.norm(e_vec), 1e-10), the divisor of e_unit (app.py:174);
\* Python's max(x, y) is y if y > x else x.  The tolerance itself is kept as
\* a finite positive value.
EccentricityDivisor(e0) == IF BelowTol(e0) THEN Opq(1) ELSE e0

\* pos_vec = x_orb * n_unit + y_orb * m_unit  (app.py:184-192)
FrameOfNode(h_unit, n_mag, n_unit, an) ==
    [n_mag |-> n_mag, n_unit |-> n_unit, divs |-> NodeDivisors(n_mag),
     pos_vec |-> VAdd(Scale(Mul(an.r_new, an.cos_nu), n_unit),
                      Scale(Mul(an.r_new, an.sin_nu), Cross(h_unit, n_unit)))]

FrameOfCross(h_unit, n0, n_mag, an) ==
    FrameOfNode(h_unit, n_mag, NodeUnit(n0, n_mag), an)

FrameOfUnit(h_unit, n0, an) == FrameOfCross(h_unit, n0, Norm(n0), an)

\* the node vector np.cross([0, 0, 1], h_unit)  (app.py:175)
NodeVector(h_unit) == Cross(<<Zero, Zero, One>>, h_unit)

\* Basis and in-plane position (app.py:172-192).  e_unit (app.py:174) is
\* never read and is left out.
Frame(h, h_mag, an) ==
    FrameOfUnit(VDiv(h, h_mag), NodeVector(VDiv(h, h_mag)), an)

\* -1.5 * J2 (app.py:196, 200): a finite negative factor
J2K == Opq(-1)

PerturbationOf(pos_vec, r_new, k, zr2) ==
    << Mul(Mul(k, Sub(One, Mul(Int2F(5), zr2))), Div(pos_vec[1], r_new)),
       Mul(Mul(k, Sub(One, Mul(Int2F(5), zr2))), Div(pos_vec[2], r_new)),
       Mul(Mul(k, Sub(Int2F(3), Mul(Int2F(5), zr2))), Div(pos_vec[3], r_new)) >>

\* J2 perturbation (app.py:199-202), k = -1.5 * J2 * (mu / r_new**2) *
\* (a_earth / r_new)**2 and zr2 = (pos_vec[2] / r_new)**2
Perturbation(pos_vec, r_new, a_earth) ==
    PerturbationOf(pos_vec, r_new,
        Mul(Mul(J2K, Div(Int2F(MU), Mul(r_new, r_new))),
            Mul(Div(a_earth, r_new), Div(a_earth, r_new))),
        Mul(Div(pos_vec[3], r_new), Div(pos_vec[3], r_new)))

\* What a call did in the frame block (app.py:172-192): built (the block
\* was entered), n_mag and n_unit as the block left them, and divs, the
\* magnitudes it divided by, in order: h_mag (app.py:173), the divisor of
\* e_unit (app.py:174) and n_mag when n_unit was normalised (app.py:182).
NoFrame == [built |-> FALSE, n_mag |-> NaN, n_unit |-> <<>>, divs |-> <<>>]

FrameDone(el, fr) ==
    [built |-> TRUE, n_mag |-> fr.n_mag, n_unit |-> fr.n_unit,
     divs |-> <<Norm(el.h), EccentricityDivisor(el.e0)>> \o fr.divs]

\* The outcome of one call: raised (an exception left the function), ret
\* (the returned position), branch (the return statement taken), path (the
\* steps executed, in order), the values the branches were decided on and
\* the record of the frame block.
CoreRaise(why) ==
    [raised |-> TRUE, ret |-> NoPos, branch |-> why, path |-> <<>>,
     dt |-> 0, e |-> NaN, e0 |-> NaN, a |-> NaN, h_mag |-> NaN,
     frame |-> NoFrame]

CoreReturn(ret, branch, path, dt, el) ==
    [raised |-> FALSE, ret |-> ret, branch |-> branch, path |-> path,
     dt |-> dt, e |-> el.e, e0 |-> el.e0, a |-> el.a, h_mag |-> Norm(el.h),
     frame |-> NoFrame]

\* an outcome reached after the frame block
WithFrame(out, el, fr) == [out EXCEPT !.frame = FrameDone(el, fr)]

\* Finish without the long-horizon test: the J2-corrected Kepler position
\* is returned for every dt.
FinishNoOverride(r0i, vi, dt, ae, el, an, fr) ==
    IF IsZero(ae)
    THEN WithFrame(CoreRaise("ZeroDivisionError"), el, fr)
    ELSE WithFrame(CoreReturn(
           MkPos(VAdd(fr.pos_vec,
                      Scale(Mul(Int2F(dt), Int2F(dt)),
                            Scale(Rat(1, 2),
                                  Perturbation(fr.pos_vec, an.r_new, ae)))),
                 r0i, vi, dt, ae.n),
           "kepler", <<"elements", "kepler", "anomaly", "frame", "j2">>, dt, el),
           el, fr)

\* Finish with the horizon written as 30 * 24 * 60: a factor of 60 is lost
\* and the rectilinear model takes over after 12 hours.
FinishHorizonInMinutes(r0i, vi, dt, ae, el, an, fr) ==
    IF IsZero(ae)
    THEN WithFrame(CoreRaise("ZeroDivisionError"), el, fr)
    ELSE IF AbsInt(dt) > 30 * 24 * 60
    THEN WithFrame(CoreReturn(Rectilinear(r0i, vi, dt), "long",
                    <<"elements", "kepler", "anomaly", "frame", "j2">>, dt, el),
                   el, fr)
    ELSE WithFrame(CoreReturn(
           MkPos(VAdd(fr.pos_vec,
                      Scale(Mul(Int2F(dt), Int2F(dt)),
                            Scale(Rat(1, 2),
                                  Perturbation(fr.pos_vec, an.r_new, ae)))),
                 r0i, vi, dt, ae.n),
           "kepler", <<"elements", "kepler", "anomaly", "frame", "j2">>, dt, el),
           el, fr)

\* Perturbation, long-horizon test and final position (app.py:194-211).
\* f = (a_earth - b_earth) / a_earth (app.py:195) is never read, but its
\* division raises ZeroDivisionError when a_earth is 0.
Finish(r0i, vi, dt, ae, el, an, fr) ==
    IF IsZero(ae)
    THEN WithFrame(CoreRaise("ZeroDivisionError"), el, fr)
    ELSE IF AbsInt(dt) > LongHorizon
    THEN WithFrame(CoreReturn(Rectilinear(r0i, vi, dt), "long",
                    <<"elements", "kepler", "anomaly", "frame", "j2">>, dt, el),
                   el, fr)
    ELSE WithFrame(CoreReturn(
           MkPos(VAdd(fr.pos_vec,
                      Scale(Mul(Int2F(dt), Int2F(dt)),
                            Scale(Rat(1, 2),
                                  Perturbation(fr.pos_vec, an.r_new, ae)))),
                 r0i, vi, dt, ae.n),
           "kepler", <<"elements", "kepler", "anomaly", "frame", "j2">>, dt, el),
           el, fr)

\* Transform without the angular-momentum test: the basis is built for
\* every state.
TransformUnguarded(r0i, vi, dt, ae, el, an, h_mag) ==
    Finish(r0i, vi, dt, ae, el, an, Frame(el.h, h_mag, an))

\* Angular-momentum test and frame transform (app.py:165-192)
Transform(r0i, vi, dt, ae, el, an, h_mag) ==
    IF BelowTol(h_mag)
    THEN CoreReturn(Rectilinear(r0i, vi, dt), "degenerate",
                    <<"elements", "kepler", "anomaly">>, dt, el)
    ELSE Finish(r0i, vi, dt, ae, el, an, Frame(el.h, h_mag, an))

\* Regime without the early return for a <= 0: every state goes on to the
\* Kepler solver.
RegimeNoFallback(r0i, vi, dt, ae, el) ==
    Transform(r0i, vi, dt, ae, el,
              Anomaly(el.a, el.e, Kepler(el.a, el.e, dt)), Norm(el.h))

\* Regime selection after the element derivation (app.py:124-163)
Regime(r0i, vi, dt, ae, el) ==
    IF Le(el.a, Zero)
    THEN CoreReturn(Rectilinear(r0i, vi, dt), "hyperbolic", <<"elements">>, dt, el)
    ELSE Transform(r0i, vi, dt, ae, el,
                   Anomaly(el.a, el.e, Kepler(el.a, el.e, dt)), Norm(el.h))

\* The function body after the conversion of its arguments (app.py:103-211)
Propagate(r0i, vi, dt, ae) == Regime(r0i, vi, dt, ae, Elements(Vec(r0i), Vec(vi)))

A_EARTH == 6378137     \* default a_earth, metres (app.py:79)
B_EARTH == 6356752     \* default b_earth, metres, whole part (app.py:79)

PredictSatellitePosition(initial_time_utc, initial_position, velocity, final_time_utc, a_earth, b_earth) ==
    IF ~ParsesAsTime(initial_time_utc) \/ ~ParsesAsTime(final_time_utc)
    THEN CoreRaise("ValueError")
    ELSE IF ~IsNumeric(initial_position) \/ ~IsNumeric(velocity)
    THEN CoreRaise("ValueError")
    ELSE Propagate(initial_position.items, velocity.items,
                   Strptime(final_time_utc) - Strptime(initial_time_utc),
                   Int2F(a_earth))

(***************************************************************************)
(* Responses of the handlers.                                              *)
(***************************************************************************)
Response(status, error, final_position, satellite_track, interval_hours) ==
    [status |-> status, error |-> error, final_position |-> final_position,
     satellite_track |-> satellite_track,
     total_points |-> Len(satellite_track),
     interval_hours |-> interval_hours]

NoResponse == Response(0, "", NoPos, <<>>, 0)

Reject400(msg) == Response(400, msg, NoPos, <<>>, 0)

Fail500(why) == Response(500, why, NoPos, <<>>, 0)

NoCall == CoreRaise("none")

\* data.get(key, default)
GetOr(x, default) == IF x.ty = "none" THEN default ELSE x.items[1]

\* the request-shape checks shared by both handlers
\* (app.py:46-51, 252-256): 400, a TypeError from len(), or "ok"
ShapeCheck(required, initial_position, velocity) ==
    IF \E x \in required : ~Truthy(x) THEN "missing"
    ELSE IF ~HasLen(initial_position) THEN "TypeError"
    ELSE IF PyLen(initial_position) # 3 THEN "not3d"
    ELSE IF ~HasLen(velocity) THEN "TypeError"
    ELSE IF PyLen(velocity) # 3 THEN "not3d"
    ELSE "ok"

(***************************************************************************)
(* POST /predict  (app.py:11-76): the outcome of the whole handler.        *)
(***************************************************************************)
PredictOutcome(chk, out) ==
    IF chk = "missing"
    THEN [resp |-> Reject400("Missing required parameters"),
          core |-> NoCall, calls |-> 0]
    ELSE IF chk = "not3d"
    THEN [resp |-> Reject400("Position and velocity must be 3D vectors"),
          core |-> NoCall, calls |-> 0]
    ELSE IF chk = "TypeError"
    THEN [resp |-> Fail500("TypeError"), core |-> NoCall, calls |-> 0]
    ELSE IF out.raised
    THEN [resp |-> Fail500(out.branch), core |-> out, calls |-> 1]
    ELSE [resp |-> Response(200, "", out.ret, <<>>, 0),
          core |-> out, calls |-> 1]

PredictHandler(d) ==
    PredictOutcome(
        ShapeCheck({d.initial_time_utc, d.initial_position,
                    d.velocity, d.final_time_utc},
                   d.initial_position, d.velocity),
        PredictSatellitePosition(d.initial_time_utc, d.initial_position,
                   d.velocity, d.final_time_utc,
                   GetOr(d.a_earth, A_EARTH), GetOr(d.b_earth, B_EARTH)))

(***************************************************************************)
(* POST /track  (app.py:214-307)                                           *)
(***************************************************************************)
DefaultDurationDays == 30    \* app.py:244
DefaultIntervalHours == 6    \* app.py:245

\* duration_days * 24 rounded up to whole hours instead of truncated
DurationHoursRoundedUp(duration_days) ==
    LET n == IF duration_days.ty = "none" THEN DefaultDurationDays * 24
             ELSE duration_days.items[1] * 24
        d == IF duration_days.ty = "frac" THEN duration_days.items[2] ELSE 1
    IN  -((-n) \div d)

\* int(duration_days * 24): truncation toward zero
DurationHours(duration_days) ==
    LET n == IF duration_days.ty = "none" THEN DefaultDurationDays * 24
             ELSE duration_days.items[1] * 24
        d == IF duration_days.ty = "frac" THEN duration_days.items[2] ELSE 1
    IN  IF n >= 0 THEN n \div d ELSE -((-n) \div d)

\* a range that includes its stop value
InRangeInclusive(i, stop, step) == IF step > 0 THEN i <= stop ELSE i >= stop

\* membership test of range(start, stop, step) at its current element i
InRange(i, stop, step) == IF step > 0 THEN i < stop ELSE i > stop

\* a sample of the track (app.py:263-270, 288-295)
Sample(time_utc, position) == [time_utc |-> time_utc, position |-> position]

\* a first point obtained from the propagator at zero elapsed time
FirstSamplePropagated(d) ==
    Sample(d.initial_time_utc,
           PredictSatellitePosition(d.initial_time_utc, d.initial_position,
               d.velocity, d.initial_time_utc,
               GetOr(d.a_earth, A_EARTH), GetOr(d.b_earth, B_EARTH)).ret)

\* the first point: the request's time and position (app.py:262-270)
FirstSample(d) ==
    Sample(d.initial_time_utc, ExactPos(Vec(d.initial_position.items)))

\* the handler up to the creation of the range (app.py:236-273)
TrackPrologue(d) ==
    LET chk == ShapeCheck({d.initial_time_utc, d.initial_position, d.velocity},
                          d.initial_position, d.velocity)
        interval_hours == GetOr(d.interval_hours, DefaultIntervalHours)
    IN  IF chk = "missing"
        THEN [resp |-> Reject400("Missing required parameters"), track |-> <<>>]
        ELSE IF chk = "not3d"
        THEN [resp |-> Reject400("Position and velocity must be 3D vectors"),
              track |-> <<>>]
        ELSE IF chk = "TypeError"
        THEN [resp |-> Fail500("TypeError"), track |-> <<>>]
        ELSE IF ~ParsesAsTime(d.initial_time_utc)
        THEN [resp |-> Fail500("ValueError"), track |-> <<>>]
        ELSE IF ~IsNumeric(d.initial_position)
        THEN [resp |-> Fail500("ValueError"), track |-> <<>>]
        ELSE IF interval_hours = 0
        THEN [resp |-> Fail500("ValueError"), track |-> <<FirstSample(d)>>]
        ELSE [resp |-> NoResponse, track |-> <<FirstSample(d)>>]

\* the time string of the iteration with range element i (app.py:274-275)
CurrentTimeStr(initial_time_utc, i) == Strftime(Strptime(initial_time_utc) + i * 3600)

\* a chained call: the elapsed time is counted from the previous sample
TrackCallChained(d, tracking_data, i) ==
    PredictSatellitePosition(tracking_data[Len(tracking_data)].time_utc,
                             d.initial_position, d.velocity,
                             CurrentTimeStr(d.initial_time_utc, i),
                             GetOr(d.a_earth, A_EARTH), GetOr(d.b_earth, B_EARTH))

\* the propagator call of one iteration (app.py:278-285)
TrackCall(d, tracking_data, i) ==
    PredictSatellitePosition(d.initial_time_utc, d.initial_position, d.velocity,
                             CurrentTimeStr(d.initial_time_utc, i),
                             GetOr(d.a_earth, A_EARTH), GetOr(d.b_earth, B_EARTH))

(***************************************************************************)
(* The requests the model sends.                                           *)
(***************************************************************************)
Grid == 0..MaxCoord

Vectors == {<<x, y, z>> : x \in Grid, y \in Grid, z \in Grid}

ExactElements(el, h_mag) ==
    /\ ~IsOpq(el.r) /\ ~IsOpq(el.e0) /\ ~IsOpq(h_mag)
    /\ ~IsOpq(Norm(NodeVector(VDiv(el.h, h_mag))))

\* every square root the propagator takes of this state is rational
ExactState(r0, v) ==
    ExactElements(Elements(Vec(r0), Vec(v)), Norm(Cross(Vec(r0), Vec(v))))

States == {s \in Vectors \X Vectors : ExactState(s[1], s[2])}

T0 == JStr(<<40, 7, 59, 4>>)

DtSet == {0, 3600, -3600, LongHorizon, -LongHorizon, LongHorizon + 1,
          -(LongHorizon + 1), LongDays * 86400}

AEarthValues == {JNone, JNum(0)}

TimeShapes == {T0, JNone, JStr(<<>>), JStr(<<7>>)}

VectorShapes == {JList(<<1, 0, 0>>), JList(<<0, 1, 0>>), JNone, JList(<<>>),
                 JList(<<1, 0>>), JNum(7), JStr(<<1, 2, 3>>)}

\* the states /track is asked about: position on the x axis, velocity in
\* the xy plane or along z
TrackStates == {s \in States : s[1][2] = 0 /\ s[1][3] = 0
                               /\ (s[2][3] = 0 \/ (s[2][1] = 0 /\ s[2][2] = 0))}

\* <<duration_days, interval_hours>> of the /track requests
TrackSpans == { <<JNone, JNone>>, <<JNum(7), JNum(12)>>, <<JNum(LongDays), JNum(12)>>,
                <<JFrac(17, 32), JNum(12)>>, <<JFrac(17, 32), JNone>>,
                <<JNum(1), JNum(12)>>, <<JNum(1), JNone>>, <<JNum(0), JNum(12)>>,
                <<JNum(-1), JNum(12)>>, <<JFrac(-17, 32), JNum(12)>>,
                <<JNum(1), JNum(0)>>,
                <<JNum(-1), JNum(-12)>>, <<JNum(1), JNum(-12)>> }

Body(t, p, v, f, dur, int, ae) ==
    [initial_time_utc |-> t, initial_position |-> p, velocity |-> v,
     final_time_utc |-> f, duration_days |-> dur, interval_hours |-> int,
     a_earth |-> ae, b_earth |-> JNone]

PredictRequests ==
    {Body(T0, JList(s[1]), JList(s[2]), Strftime(Strptime(T0) + dt), JNone, JNone, ae) :
        s \in States, dt \in DtSet, ae \in AEarthValues}
    \cup
    {Body(t, p, v, f, JNone, JNone, JNone) :
        t \in TimeShapes, p \in VectorShapes, v \in VectorShapes,
        f \in {T0, JNone, JStr(<<7>>)}}

TrackRequests ==
    {Body(T0, JList(s[1]), JList(s[2]), JNone, sp[1], sp[2], JNone) :
        s \in TrackStates, sp \in TrackSpans}
    \cup
    {Body(t, p, v, JNone, dur, JNone, ae) :
        t \in TimeShapes, p \in VectorShapes, v \in VectorShapes,
        dur \in {JNum(0), JNum(1)}, ae \in AEarthValues}

(***************************************************************************)
(* State.                                                                  *)
(*   phase          "idle", "loop" (inside the /track loop), "done"        *)
(*   route          the handler serving the request                        *)
(*   request        the body of the request being served, as received      *)
(*   data           the handler's local view of the body (app.py:33-43,    *)
(*                  238-249)                                               *)
(*   tracking_data  the list built by /track (app.py:260)                  *)
(*   i              the current element of the range (app.py:273)          *)
(*   core           the outcome of the latest propagator call              *)
(*   calls          the number of propagator calls made for the request    *)
(*   response       the response returned by the handler                   *)
(***************************************************************************)
VARIABLES phase, route, request, data, tracking_data, i, core, calls, response

vars == <<phase, route, request, data, tracking_data, i, core, calls, response>>

NoBody == Body(JNone, JNone, JNone, JNone, JNone, JNone, JNone)

Init ==
    /\ phase = "idle"
    /\ route = "none"
    /\ request = NoBody
    /\ data = NoBody
    /\ tracking_data = <<>>
    /\ i = 0
    /\ core = NoCall
    /\ calls = 0
    /\ response = NoResponse

\* POST /predict: the whole handler
Predict ==
    /\ phase = "idle"
    /\ \E d \in PredictRequests : \E out \in {PredictHandler(d)} :
              /\ request' = d
              /\ data' = d
              /\ core' = out.core
              /\ calls' = out.calls
              /\ response' = out.resp
    /\ route' = "predict"
    /\ phase' = "done"
    /\ UNCHANGED <<tracking_data, i>>

\* POST /track: validation, first sample, creation of the range
TrackBegin ==
    /\ phase = "idle"
    /\ \E d \in TrackRequests : \E pro \in {TrackPrologue(d)} :
              /\ request' = d
              /\ data' = d
              /\ tracking_data' = pro.track
              /\ response' = pro.resp
              /\ phase' = IF pro.resp.status = 0 THEN "loop" ELSE "done"
              /\ i' = GetOr(d.interval_hours, DefaultIntervalHours)
    /\ route' = "track"
    /\ core' = NoCall
    /\ calls' = 0

\* one iteration of the loop (app.py:273-295)
TrackStep ==
    /\ phase = "loop"
    /\ InRange(i, DurationHours(data.duration_days),
               GetOr(data.interval_hours, DefaultIntervalHours))
    /\ \E out \in {TrackCall(data, tracking_data, i)} :
           /\ core' = out
           /\ calls' = calls + 1
           /\ IF out.raised
              THEN /\ response' = Fail500(out.branch)
                   /\ phase' = "done"
                   /\ UNCHANGED tracking_data
              ELSE /\ tracking_data' = Append(tracking_data,
                          Sample(CurrentTimeStr(data.initial_time_utc, i), out.ret))
                   /\ UNCHANGED <<response, phase>>
    /\ i' = i + GetOr(data.interval_hours, DefaultIntervalHours)
    /\ UNCHANGED <<route, request, data>>

\* the range is exhausted: the handler returns the track (app.py:297-303)
TrackReturn ==
    /\ phase = "loop"
    /\ ~InRange(i, DurationHours(data.duration_days),
                GetOr(data.interval_hours, DefaultIntervalHours))
    /\ response' = Response(200, "", NoPos, tracking_data,
                            GetOr(data.interval_hours, DefaultIntervalHours))
    /\ phase' = "done"
    /\ UNCHANGED <<route, request, data, tracking_data, i, core, calls>>

\* the response is sent; the handler's locals are gone
Deliver ==
    /\ phase = "done"
    /\ phase' = "idle"
    /\ route' = "none"
    /\ request' = NoBody
    /\ data' = NoBody
    /\ tracking_data' = <<>>
    /\ i' = 0
    /\ core' = NoCall
    /\ calls' = 0
    /\ response' = NoResponse

Next == Predict \/ TrackBegin \/ TrackStep \/ TrackReturn \/ Deliver

Spec == Init /\ [][Next]_vars

(***************************************************************************)
(* Properties.                                                             *)
(***************************************************************************)
\* the request's vectors, interval and duration
ReqPosition == request.initial_position.items
ReqVelocity == request.velocity.items
ReqInterval == GetOr(request.interval_hours, DefaultIntervalHours)
ReqDurationNum == IF request.duration_days.ty = "none" THEN DefaultDurationDays
                  ELSE request.duration_days.items[1]
ReqDurationDen == IF request.duration_days.ty = "frac"
                  THEN request.duration_days.items[2] ELSE 1

\* the elapsed seconds asked of the latest propagator call
CallDt == IF route = "predict"
          THEN Strptime(request.final_time_utc) - Strptime(request.initial_time_utc)
          ELSE (i - ReqInterval) * 3600

Returned == ~core.raised

TrackServed == route = "track" /\ response.status = 200

\* C1: every call with |dt| > 30 * 86400 s that returns, returns exactly
\* initial_position + velocity * dt, whatever the orbit is; never the
\* J2-corrected Kepler position.
LongHorizonOverride ==
    (Returned /\ AbsInt(CallDt) > 30 * 86400)
        => /\ core.ret = Rectilinear(ReqPosition, ReqVelocity, CallDt)
           /\ core.branch # "kepler"

\* C1 witness: a valid ellipse asked for more than 30 days reached the
\* long-horizon return after the Kepler, frame and J2 steps.
LongHorizonReached ==
    /\ Returned /\ core.branch = "long" /\ AbsInt(CallDt) > 30 * 86400
    /\ Lt(Zero, core.e) /\ Lt(core.e, One) /\ Lt(Zero, core.a)
    /\ core.path = <<"elements", "kepler", "anomaly", "frame", "j2">>

\* C2: whenever a <= 0 the call returns initial_position + velocity * dt for
\* every dt, straight after the element derivation: no Kepler solve, frame
\* transform or J2 correction is executed.
HyperbolicFallback ==
    (Returned /\ Le(core.a, Zero))
        => /\ core.ret = Rectilinear(ReqPosition, ReqVelocity, CallDt)
           /\ core.path = <<"elements">>

\* C2 witness: a state with a < 0 was propagated backwards in time.
HyperbolicReached ==
    Returned /\ Lt(core.a, Zero) /\ CallDt < 0 /\ core.branch = "hyperbolic"

\* C3: with final_time = initial_time and |initial_position| > 0 the call
\* returns exactly initial_position, on every branch.
ZeroElapsedIdentity ==
    (Returned /\ route = "predict" /\ CallDt = 0 /\ ReqPosition # <<0, 0, 0>>)
        => core.ret = ExactPos(Vec(ReqPosition))

\* floor(duration_days * 24)
FloorHours == (ReqDurationNum * 24) \div ReqDurationDen

\* 1 + |{k >= 1 : k * interval_hours < floor(duration_days * 24)}|
ExpectedPoints ==
    1 + Cardinality({k \in 1..(IF FloorHours > 0 THEN FloorHours ELSE 0) :
                        k * ReqInterval < FloorHours})

FirstIsInitial(track) ==
    /\ Len(track) >= 1
    /\ track[1].time_utc = request.initial_time_utc
    /\ track[1].position.of = <<>>
    /\ \A j \in 1..3 : track[1].position.xyz[j] = Int2F(ReqPosition[j])

\* C5: in every served /track response element 0 of satellite_track has the
\* request's initial_time_utc and initial_position, unmodified, and is
\* always present; it is in the track before any propagator call.
FirstSampleIdentity ==
    /\ TrackServed => FirstIsInitial(response.satellite_track)
    /\ (route = "track" /\ phase = "loop") => FirstIsInitial(tracking_data)

\* C5 witness: a track with no further samples was served for a state whose
\* propagated position at zero elapsed time is not its initial position.
FirstSampleOnlyServed ==
    /\ TrackServed /\ response.total_points = 1 /\ calls = 0
    /\ ReqPosition = <<1, 0, 0>> /\ ReqVelocity = <<0, 1, 0>>

\* sample k of a track computed by one call on the request as received
IndependentSample(k) ==
    Sample(Strftime(Strptime(request.initial_time_utc) + k * ReqInterval * 3600),
           PredictSatellitePosition(request.initial_time_utc,
               request.initial_position, request.velocity,
               Strftime(Strptime(request.initial_time_utc) + k * ReqInterval * 3600),
               GetOr(request.a_earth, A_EARTH), GetOr(request.b_earth, B_EARTH)).ret)

\* C6: every sample k >= 1 equals one independent propagator call on the
\* request's original state with target time initial_time + k *
\* interval_hours, and the handler's view of the initial state stays the
\* request's.  (Each sample is compared when it is appended and all of
\* them when the track is returned.)
TrackNeverChains ==
    route = "track"
        => /\ data = request
           /\ \A k \in (IF phase = "loop" THEN {Len(tracking_data)}
                        ELSE 1..Len(tracking_data)) \ {1} :
                 tracking_data[k] = IndependentSample(k - 1)
           /\ TrackServed => response.satellite_track = tracking_data

\* C6 witness: a track of at least three samples was served.
TrackOfSeveralServed ==
    TrackServed /\ response.total_points >= 3 /\ calls = response.total_points - 1

\* a required field is absent, or a vector is not a list of three numbers
IsVector3(x) == x.ty = "list" /\ Len(x.items) = 3

BadShape ==
    \/ request.initial_time_utc.ty = "none"
    \/ route = "predict" /\ request.final_time_utc.ty = "none"
    \/ ~IsVector3(request.initial_position)
    \/ ~IsVector3(request.velocity)

\* C7: every request with a missing required field or a position or
\* velocity that is not a 3-element vector is rejected with 400 before the
\* propagator is called; it never reaches the propagator and is never
\* answered with a position.
ShapeErrorsRejected ==
    (route # "none" /\ BadShape)
        => /\ calls = 0
           /\ phase = "done" => response.status = 400

\* C8: duration_days = 7 with interval_hours = 12 is answered with
\* total_points = 15, the first point at the initial time and the second
\* 12 hours later.
DocumentedTrackExample ==
    (TrackServed /\ request.duration_days = JNum(7) /\ request.interval_hours = JNum(12))
        => /\ response.total_points = 15
           /\ response.satellite_track[1].time_utc = request.initial_time_utc
           /\ response.satellite_track[2].time_utc =
                 Strftime(Strptime(request.initial_time_utc) + 12 * 3600)

\* the samples after the first are at initial_time + k * interval_hours for
\* k = 1, 2, ... in this order, for exactly the k with k * interval_hours <
\* limit / den hours
SamplesExactlyBelow(track, limit, den) ==
    /\ \A k \in 1..(Len(track) - 1) :
          /\ track[k + 1].time_utc =
                Strftime(Strptime(request.initial_time_utc) + k * ReqInterval * 3600)
          /\ k * ReqInterval * den < limit
    /\ Len(track) * ReqInterval * den >= limit

\* C9 as claimed: the samples are at the k >= 1 with k * interval_hours <
\* duration_days * 24, integer or fractional.
SamplesWithinDuration ==
    (TrackServed /\ ReqInterval > 0)
        => SamplesExactlyBelow(response.satellite_track,
                               ReqDurationNum * 24, ReqDurationDen)

\* C9 amended: the samples are at the k >= 1 with k * interval_hours <
\* floor(duration_days * 24), in increasing k with constant spacing, and
\* none at or beyond initial_time + floor(duration_days * 24) hours.
SamplesWithinWholeHours ==
    (TrackServed /\ ReqInterval > 0)
        => SamplesExactlyBelow(response.satellite_track, FloorHours, 1)

\* C9 witness: a fractional duration of 12.75 hours sampled every 6 hours
\* was served with the single further sample at 6 hours.
FractionalDurationServed ==
    /\ TrackServed /\ request.duration_days = JFrac(17, 32) /\ ReqInterval = 6
    /\ response.total_points = 2

\* C10: a state with e >= 1 (after the clamp) has a <= 0 and leaves by the
\* rectilinear fallback; the Kepler solver and the true-anomaly formula run
\* only for e < 1 and a > 0.  (States whose e or a is not a number are left
\* out.)
NonEllipticalFallsBack ==
    (Returned /\ ~IsNaN(core.e) /\ ~IsNaN(core.a))
        => /\ Le(One, core.e) => (Le(core.a, Zero) /\ core.branch = "hyperbolic")
           /\ (Len(core.path) >= 3) => (Lt(core.e, One) /\ Lt(Zero, core.a))

\* a propagator call was made for the request and reached a return or an
\* exception inside the function body
Called == calls > 0

\* C11: in every call the frame block divides only by magnitudes that are
\* not below 1e-10: with |h| < 1e-10 the call returns r0 + v0 * dt and the
\* basis is not built; with |z x h_unit| < 1e-10 the basis is built with
\* n_unit = [1, 0, 0] and n_unit is not divided by its magnitude.
DegenerateGeometryGuards ==
    Called
        => /\ \A j \in 1..Len(core.frame.divs) : ~BelowTol(core.frame.divs[j])
           /\ (Returned /\ BelowTol(core.h_mag))
                 => /\ ~core.frame.built
                    /\ core.ret = Rectilinear(ReqPosition, ReqVelocity, CallDt)
           /\ (core.frame.built /\ BelowTol(core.frame.n_mag))
                 => /\ core.frame.n_unit = <<One, Zero, Zero>>
                    /\ Len(core.frame.divs) = 2
           /\ core.frame.built
                 => /\ core.frame.divs[1] = core.h_mag \/ core.raised
                    /\ Len(core.frame.divs) >= 2

\* C11 witness: an equatorial orbit (h along the polar axis) went through
\* the frame block and came back with a Kepler position.
EquatorialFrameBuilt ==
    /\ Returned /\ core.branch = "kepler" /\ core.frame.built
    /\ IsZero(core.frame.n_mag) /\ ~BelowTol(core.h_mag)
    /\ core.frame.n_unit = <<One, Zero, Zero>>

\* duration_days <= 30
WithinThirtyDays == ReqDurationNum <= 30 * ReqDurationDen

\* C12: in a /track request with a positive interval_hours the elapsed time
\* of the call for sample k is k * interval_hours * 3600 s; with duration_days <= 30 it
\* is at most 30 * 86400 s and no sample comes from the long-horizon
\* return; a sample comes from the long-horizon return only in a track
\* longer than 30 days, and among the calls that reach the last step
\* exactly those with k * interval_hours * 3600 > 30 * 86400 do.
TrackWithinThirtyDays ==
    (route = "track" /\ Called /\ Returned /\ ReqInterval > 0)
        => /\ core.dt = CallDt
           /\ CallDt = (Len(tracking_data) - 1) * ReqInterval * 3600
           /\ WithinThirtyDays
                 => /\ CallDt <= 30 * 86400
                    /\ core.branch # "long"
           /\ core.branch = "long" => (CallDt > 30 * 86400 /\ ~WithinThirtyDays)
           /\ core.frame.built => (core.branch = "long" <=> CallDt > 30 * 86400)

\* C12 witness: the default track (30 days every 6 hours) was served with
\* its last sample, at 714 hours, taken from the Kepler position.
DefaultTrackServed ==
    /\ TrackServed
    /\ request.duration_days = JNone /\ request.interval_hours = JNone
    /\ response.total_points = 120
    /\ core.branch = "kepler" /\ core.dt = 714 * 3600

=============================================================================
